---- MODULE Spec2Model ----
(***************************************************************************)
(* Asana -> YouTrack migration script.                                     *)
(*                                                                         *)
(* Two copies of the script live in the repository:                        *)
(*   src/python/asana2youtrack.py   the complete script (users,            *)
(*                                  subsystems, issues, cache), and        *)
(*   src/asana2youtrack.py          an earlier copy (users, subsystems).   *)
(* Definitions without a suffix model the first; definitions ending in     *)
(* _root model the second.                                                 *)
(*                                                                         *)
(* Python dicts are functions with a dynamic domain; a raised exception is *)
(* the name of the exception ("none" when nothing was raised).             *)
(***************************************************************************)
EXTENDS Integers, Sequences, FiniteSets, TLC

\* ------------------------------------------------------------------------
\* Python helpers
\* ------------------------------------------------------------------------

\* The empty dict.
EmptyMap == << >>

\* isinstance(i, dict): source payloads are dicts, destination items objects.
IsDict(i) == i.kind = "dict"

\* `k in i` for a dict, hasattr(i, k) for an object.
HasKey(i, k) == k \in DOMAIN i

Range(s) == {s[n] : n \in DOMAIN s}

\* map[key][subkey] = item when key is in map, else map[key] = {subkey: item}
MapSet(map, key, subkey, item) ==
    IF key \in DOMAIN map
    THEN [map EXCEPT ![key] = (subkey :> item) @@ @]
    ELSE (key :> (subkey :> item)) @@ map

\* A plausible slip: the entry is always replaced, losing the other side.
MapSetOverwrite(map, key, subkey, item) ==
    [x \in (DOMAIN map) \cup {key} |->
        IF x = key THEN (subkey :> item) ELSE map[x]]

\* The two branches of merge_into_map share this assignment.
MergeEntry(map, key, subkey, item) == MapSet(map, key, subkey, item)

\* The 'a' branch: a missing key raises KeyError at i[k], after the items
\* before it were merged.
RECURSIVE MergeA(_, _, _)
MergeA(i_list, k, map) ==
    IF i_list = << >> THEN [map |-> map, raised |-> "none", logged |-> FALSE]
    ELSE LET i == Head(i_list) IN
         IF ~HasKey(i, k) THEN [map |-> map, raised |-> "KeyError", logged |-> FALSE]
         ELSE MergeA(Tail(i_list), k, MergeEntry(map, i[k], "a", i))

\* The 'yt' branch: items lacking the attribute are skipped.
RECURSIVE MergeYt(_, _, _)
MergeYt(i_list, k, map) ==
    IF i_list = << >> THEN [map |-> map, raised |-> "none", logged |-> FALSE]
    ELSE LET i == Head(i_list) IN
         IF ~HasKey(i, k) THEN MergeYt(Tail(i_list), k, map)
         ELSE MergeYt(Tail(i_list), k, MergeEntry(map, i[k], "yt", i))

\* src/python/asana2youtrack.py: an empty list is logged and nothing happens.
merge_into_map(i_list, k, map) ==
    IF Len(i_list) = 0 THEN [map |-> map, raised |-> "none", logged |-> TRUE]
    ELSE IF IsDict(i_list[1]) THEN MergeA(i_list, k, map)
    ELSE MergeYt(i_list, k, map)

\* src/asana2youtrack.py: an empty list is logged, and then i_list[0] raises.
merge_into_map_root(i_list, k, map) ==
    IF i_list = << >> THEN [map |-> map, raised |-> "IndexError", logged |-> TRUE]
    ELSE IF IsDict(i_list[1]) THEN MergeA(i_list, k, map)
    ELSE MergeYt(i_list, k, map)

\* ------------------------------------------------------------------------
\* Strings the script computes on are sequences of characters
\* ------------------------------------------------------------------------
LowerCase == <<"a", "b", "c", "d", "e", "f", "g", "h", "i", "j", "k", "l", "m",
               "n", "o", "p", "q", "r", "s", "t", "u", "v", "w", "x", "y", "z">>
UpperCase == <<"A", "B", "C", "D", "E", "F", "G", "H", "I", "J", "K", "L", "M",
               "N", "O", "P", "Q", "R", "S", "T", "U", "V", "W", "X", "Y", "Z">>

\* str.upper() on one character.
UpperChar(c) ==
    IF \E n \in DOMAIN LowerCase : LowerCase[n] = c
    THEN UpperCase[CHOOSE n \in DOMAIN LowerCase : LowerCase[n] = c]
    ELSE c

IsSpace(c) == c \in {" ", "\t", "\n"}

\* ''.join(name.split()): the name without its whitespace.
RemoveWhitespace(name) == SelectSeq(name, LAMBDA c : ~IsSpace(c))

\* name.replace(' ', '').upper(): the id of a project created for a workspace.
ProjectIdOf(name) ==
    LET kept == SelectSeq(name, LAMBDA c : c # " ")
    IN [n \in DOMAIN kept |-> UpperChar(kept[n])]

\* text[:9]
Prefix9(text) == SubSeq(text, 1, IF Len(text) < 9 THEN Len(text) ELSE 9)

ReporterPrefixes ==
    { <<"a", "s", "s", "i", "g", "n", "e", "d", " ">>,
      <<"a", "d", "d", "e", "d", " ", "t", "o", " ">>,
      <<"a", "d", "d", "e", "d", " ", "s", "u", "b">> }

\* str(n) and int(s) for the numbers the script converts.
MaxNumber == 40
StrOf(n) == ToString(n)
IntOf(s) == CHOOSE n \in 0..MaxNumber : ToString(n) = s

\* How many times main is run.
MaxRuns == 2

\* getIssues(project, filter, 0, 1000): at most this many issues come back.
IssuesLimit == 1000

\* ------------------------------------------------------------------------
\* State
\* ------------------------------------------------------------------------
VARIABLES
    \* --- the source service (Asana)
    src_tasks,      \* task id -> [name, assignee (0: nobody), ws, completed, projects]
    src_stories,    \* task id -> the task's stories, in list order
    src_projects,   \* the sub-projects, in listing order
    iter_order,     \* the order in which _a_users.iteritems() yields the user ids
    \* --- the destination service (YouTrack)
    d_projects,     \* projects, in listing order
    d_users,        \* users, in listing order
    d_subs,         \* subsystems, in listing order
    d_issues,       \* issues, in creation order
    d_fields,       \* names of the custom field prototypes
    d_pfields,      \* <<project id, field name>> of the project custom fields
    faults,         \* errors the destination has answered custom-field requests with
    \* --- the working directory
    cache,          \* file name -> [ok, data]; ok is FALSE for an unparseable file
    \* --- one run of main
    pc,             \* where main is
    runs,           \* runs started so far
    budget,         \* runs this world will see
    a_workspaces,   \* workspaces still to process
    yt_projects,    \* the destination projects listed at the start of the run
    a_work,         \* the workspace being processed
    yt_proj,        \* its destination project
    user_map,       \* _user_map
    project_map,    \* _project_map
    task_map,       \* _task_map
    asana_id_map,   \* _asana_id_map
    a_users,        \* _a_users
    numberInProject,
    users_left,     \* user ids the loop of migrate_tasks_to_issues has still to visit
    \* --- history, for stating the properties
    created,        \* what this run created: [users, subs, issues]
    changed,        \* the source changed since this run (or the last one) started
    quiet,          \* the previous run completed and the source did not change since it started
    last,           \* what the last step of a migrator did
    seen,           \* destination issues fetched so far in this run
    numbered,       \* <<project id, number>> of the issues built so far in this run
    trail,          \* the steps the current run of main has completed, in order
    \* --- merge_into_map on its own
    m_map,      \* the map merge_into_map is applied to
    m_list,     \* the list of the last call
    m_version,  \* which copy of merge_into_map the last call used
    m_result,   \* [raised, logged] of the last call
    m_calls,    \* number of calls made
    m_akeys,    \* keys merged so far from source lists
    m_ytkeys,   \* keys merged so far from destination lists
    \* --- the cache functions on their own
    c_calls,    \* number of calls made
    fetch_log,  \* file name -> how often it was fetched from the source API
    corrupted,  \* the files that were damaged on disk
    \* --- the time conversions on their own
    t_stamp,    \* the timestamp the source sent
    t_zone,     \* the offset of the machine's local time from UTC, in seconds
    t_time,     \* what a_to_yt_time returned for it
    t_date      \* what a_to_yt_date returned for it

srcVars == <<src_tasks, src_stories, src_projects, iter_order>>
destVars == <<d_projects, d_users, d_subs, d_issues, d_fields, d_pfields>>
runVars == <<pc, runs, budget, a_workspaces, yt_projects, a_work, yt_proj, user_map,
             project_map, task_map, asana_id_map, a_users, numberInProject,
             users_left>>
histVars == <<created, changed, quiet, last, seen, numbered, trail>>
mainVars == <<srcVars, destVars, faults, cache, runVars, histVars>>
mergeVars == <<m_map, m_list, m_version, m_result, m_calls, m_akeys, m_ytkeys>>

cacheVars == <<c_calls, fetch_log, corrupted>>

timeVars == <<t_stamp, t_zone, t_time, t_date>>

vars == <<mainVars, mergeVars, cacheVars, timeVars>>

\* ------------------------------------------------------------------------
\* The source service: workspaces, users, sub-projects, tasks, stories
\* ------------------------------------------------------------------------
\* Python's None where an object is expected, and where a string is.
None == [kind |-> "None"]
NoneStr == "None"

PersonalProjects == <<"P", "e", "r", "s", "o", "n", "a", "l", " ",
                      "P", "r", "o", "j", "e", "c", "t", "s">>
WsDev == <<"d", "e", "v">>
WsQa == <<"q", " ", "a">>

\* a_conn.workspaces.find_all()
workspaces_find_all ==
    << [kind |-> "dict", id |-> 100, name |-> PersonalProjects],
       [kind |-> "dict", id |-> 101, name |-> WsDev],
       [kind |-> "dict", id |-> 102, name |-> WsQa] >>

AUserIds == {1, 2}
TaskIds == {1, 2}

\* a_conn.users.find_by_id(id)
users_find_by_id(id) ==
    IF id = 1
    THEN [kind |-> "dict", id |-> 1, email |-> "ann@x",
          name |-> <<"A", "n", "n", " ", "L", "e", "e">>]
    ELSE [kind |-> "dict", id |-> 2, email |-> "bob@x",
          name |-> <<"B", "o", "b">>]

\* a_conn.users.find_by_workspace(ws): compact records of the members.
users_find_by_workspace(ws) ==
    IF ws = 101 THEN << [kind |-> "dict", id |-> 1], [kind |-> "dict", id |-> 2] >>
    ELSE IF ws = 102 THEN << [kind |-> "dict", id |-> 2] >>
    ELSE << >>

MembersOf(ws) == {users_find_by_workspace(ws)[n].id : n \in DOMAIN users_find_by_workspace(ws)}

\* a_conn.projects.find_all({'workspace': ws, 'archived': archived})
projects_find_all(ws, archived) ==
    SelectSeq(src_projects, LAMBDA p : p.ws = ws /\ p.archived = archived)

\* a_conn.projects.find_by_id(id)
projects_find_by_id(id) ==
    LET n == CHOOSE x \in DOMAIN src_projects : src_projects[x].id = id
    IN src_projects[n]

\* a_conn.tasks.find_by_id(id): the task as the source holds it now.
tasks_find_by_id(id) ==
    [kind |-> "dict", id |-> id, name |-> src_tasks[id].name,
     assignee |-> IF src_tasks[id].assignee = 0 THEN None
                  ELSE [id |-> src_tasks[id].assignee],
     completed |-> src_tasks[id].completed,
     projects |-> src_tasks[id].projects]

\* The ids of a set of naturals in increasing order.
RECURSIVE SortedSeq(_)
SortedSeq(S) ==
    IF S = {} THEN << >>
    ELSE LET m == CHOOSE x \in S : \A y \in S : x <= y
         IN <<m>> \o SortedSeq(S \ {m})

\* a_conn.tasks.find_all(params={'workspace': ws, 'assignee': a_id})
tasks_find_all(ws, a_id) ==
    LET ids == SortedSeq({t \in TaskIds : src_tasks[t].ws = ws /\ src_tasks[t].assignee = a_id})
    IN [n \in DOMAIN ids |-> [kind |-> "dict", id |-> ids[n], name |-> src_tasks[ids[n]].name]]

\* a_conn.stories.find_by_task(id): compact records.
stories_find_by_task(id) ==
    [n \in DOMAIN src_stories[id] |-> [kind |-> "dict", id |-> src_stories[id][n].id]]

\* a_conn.stories.find_by_id(id)
stories_find_by_id(id) ==
    LET t == CHOOSE x \in TaskIds : \E n \in DOMAIN src_stories[x] : src_stories[x][n].id = id
        n == CHOOSE x \in DOMAIN src_stories[t] : src_stories[t][x].id = id
    IN src_stories[t][n]

\* ------------------------------------------------------------------------
\* The destination service
\* ------------------------------------------------------------------------
\* The login main is run with.
yt_login == "root"

\* yt_conn.getUsers() followed by getUser(login) for each.
getUsers == d_users

\* yt_conn.getProjects() followed by getProject(id) for each.
getProjects == d_projects

\* yt_conn.getSubsystems(project) followed by getSubsystem(project, name) for each.
getSubsystems(project_id) == SelectSeq(d_subs, LAMBDA x : x.proj = project_id)

\* The first n elements of a sequence.
Take(s, n) == SubSeq(s, 1, IF Len(s) < n THEN Len(s) ELSE n)

\* yt_conn.getIssues(project, "Assignee: <login>", 0, 1000)
getIssues(project_id, login) ==
    Take(SelectSeq(d_issues, LAMBDA x : x.proj = project_id /\ x.assignee = login),
         IssuesLimit)

\* Issue ids are <project>-<numberInProject>: the destination holds one issue
\* per project and number, and an imported issue whose number is taken is
\* refused (its item of the import response reports the failure).
RECURSIVE importIssues(_, _, _)
importIssues(issues, project_id, new_issues) ==
    IF new_issues = << >> THEN issues
    ELSE LET i == Head(new_issues)
             taken == \E n \in DOMAIN issues :
                         /\ issues[n].proj = project_id
                         /\ issues[n].numberInProject = i.numberInProject
         IN importIssues(IF taken THEN issues
                         ELSE Append(issues, [i EXCEPT !.proj = project_id]),
                         project_id, Tail(new_issues))

\* ------------------------------------------------------------------------
\* The local cache
\* ------------------------------------------------------------------------
\* A plausible slip: the cache file is never consulted.
GetOrFetchAlways(fname, c, fetched) ==
    [details |-> fetched,
     cache |-> (fname :> [ok |-> TRUE, data |-> fetched]) @@ c,
     fetches |-> <<fname>>]

\* try: json.load(open(fname)) except: fetch, then json.dump to fname.
\* The payloads are what the source API parsed from JSON (dicts with string
\* keys, lists, strings, numbers, booleans, null), on which json.dump followed
\* by json.load gives back an equal value; a file that does not parse is
\* kept apart by ok = FALSE.
\* `fetched` is what the source API answers now; it is asked only on a miss.
GetOrFetch(fname, c, fetched) ==
    IF fname \in DOMAIN c /\ c[fname].ok
    THEN [details |-> c[fname].data, cache |-> c, fetches |-> << >>]
    ELSE [details |-> fetched,
          cache |-> (fname :> [ok |-> TRUE, data |-> fetched]) @@ c,
          fetches |-> <<fname>>]

TaskFile(id) == <<"task_", id, ".json">>
TaskStoriesFile(id) == <<"task_stories_", id, ".json">>
StoryFile(id) == <<"story_", id, "">>

\* get_task_details(a_conn, a_tasks) on the cache c: [resp, cache, fetches]
RECURSIVE get_task_details(_, _)
get_task_details(a_tasks, c) ==
    IF a_tasks = << >> THEN [resp |-> << >>, cache |-> c, fetches |-> << >>]
    ELSE LET task == Head(a_tasks)
             one == GetOrFetch(TaskFile(task.id), c, tasks_find_by_id(task.id))
             rest == get_task_details(Tail(a_tasks), one.cache)
         IN [resp |-> <<one.details>> \o rest.resp,
             cache |-> rest.cache,
             fetches |-> one.fetches \o rest.fetches]

\* get_task_stories(a_conn, a_task) on the cache c: [resp, cache, fetches]
get_task_stories(a_task, c) ==
    LET one == GetOrFetch(TaskStoriesFile(a_task.id), c, stories_find_by_task(a_task.id))
    IN [resp |-> one.details, cache |-> one.cache, fetches |-> one.fetches]

\* get_story_details(a_conn, a_stories) on the cache c: [resp, cache, fetches]
RECURSIVE get_story_details(_, _)
get_story_details(a_stories, c) ==
    IF a_stories = << >> THEN [resp |-> << >>, cache |-> c, fetches |-> << >>]
    ELSE LET story == Head(a_stories)
             one == GetOrFetch(StoryFile(story.id), c, stories_find_by_id(story.id))
             rest == get_story_details(Tail(a_stories), one.cache)
         IN [resp |-> <<one.details>> \o rest.resp,
             cache |-> rest.cache,
             fetches |-> one.fetches \o rest.fetches]

\* ------------------------------------------------------------------------
\* main, src/python/asana2youtrack.py
\* ------------------------------------------------------------------------
NoStep == [op |-> "none"]
NoCreated == [users |-> 0, subs |-> 0, issues |-> 0]

\* a_id_to_yt_login(id): [raised, login]
a_id_to_yt_login(id) ==
    IF id \notin DOMAIN a_users THEN [raised |-> "KeyError", login |-> NoneStr]
    ELSE LET email == a_users[id].email IN
         IF email \notin DOMAIN user_map \/ "yt" \notin DOMAIN user_map[email]
         THEN [raised |-> "KeyError", login |-> NoneStr]
         ELSE [raised |-> "none", login |-> user_map[email]["yt"].login]

\* main, lines 337-346: log in to both services, list the workspaces other
\* than Personal Projects and the destination projects.  Every run is a new
\* process: the module-level dicts start empty.
StartRun ==
    /\ pc \in {"idle", "done", "crashed"}
    /\ runs < budget
    /\ runs' = runs + 1
    /\ pc' = "workspace"
    /\ a_workspaces' = SelectSeq(workspaces_find_all, LAMBDA w : w.name # PersonalProjects)
    /\ yt_projects' = getProjects
    /\ a_work' = None
    /\ yt_proj' = None
    /\ user_map' = EmptyMap
    /\ project_map' = EmptyMap
    /\ task_map' = EmptyMap
    /\ asana_id_map' = EmptyMap
    /\ a_users' = EmptyMap
    /\ numberInProject' = 0
    /\ users_left' = << >>
    /\ created' = NoCreated
    /\ quiet' = (pc = "done" /\ ~changed)
    /\ changed' = FALSE
    /\ last' = NoStep
    /\ seen' = {}
    /\ numbered' = << >>
    /\ trail' = <<"login">>
    /\ UNCHANGED <<mergeVars, timeVars, faults, cacheVars, srcVars, destVars, cache, budget>>

\* The destination project of a workspace name among those listed, or None.
FindProject(projects, name) ==
    IF \E n \in DOMAIN projects : projects[n].name = name
    THEN projects[CHOOSE n \in DOMAIN projects :
                     /\ projects[n].name = name
                     /\ \A x \in 1..(n - 1) : projects[x].name # name]
    ELSE None

\* The project main builds for a workspace that has none.
NewProject(work) ==
    [kind |-> "obj", name |-> work.name, id |-> ProjectIdOf(work.name), lead |-> yt_login]

\* main, lines 348-361: the next workspace and its destination project.
\* createProject with an id the destination already uses is refused and the
\* exception ends the run.
ResolveProject ==
    /\ pc = "workspace"
    /\ a_workspaces # << >>
    /\ LET work == Head(a_workspaces)
           found == FindProject(yt_projects, work.name)
           proj == IF found = None THEN NewProject(work) ELSE found
           clash == found = None /\ \E n \in DOMAIN d_projects : d_projects[n].id = proj.id
       IN /\ a_work' = work
          /\ a_workspaces' = Tail(a_workspaces)
          /\ yt_proj' = proj
          /\ d_projects' = IF found = None /\ ~clash THEN Append(d_projects, proj)
                           ELSE d_projects
          /\ pc' = IF clash THEN "crashed" ELSE "fields"
          /\ last' = [op |-> "project", work |-> work, proj |-> proj,
                      found |-> found # None, raised |-> IF clash THEN "YouTrackException" ELSE "none"]
    /\ trail' = IF pc' = "crashed" THEN trail ELSE Append(trail, "project")
    /\ UNCHANGED <<mergeVars, timeVars, faults, cacheVars, srcVars, d_users, d_subs, d_issues, d_fields, d_pfields, cache,
                   runs, budget, yt_projects, user_map, project_map, task_map, asana_id_map,
                   a_users, numberInProject, users_left, created, changed, quiet, seen, numbered>>

\* main, line 348: the loop over the workspaces is over.
Finish ==
    /\ pc = "workspace"
    /\ a_workspaces = << >>
    /\ pc' = "done"
    /\ last' = NoStep
    /\ UNCHANGED <<mergeVars, timeVars, faults, trail, cacheVars, srcVars, destVars, cache, runs, budget, a_workspaces, yt_projects, a_work,
                   yt_proj, user_map, project_map, task_map, asana_id_map, a_users,
                   numberInProject, users_left, created, changed, quiet, seen, numbered>>

\* A slip: the tasks are migrated before the subsystems.
MigratorsSwapped == <<"users", "tasks", "subs">>

\* main, lines 396-398: the three migrators, in the order main calls them.
Migrators == <<"users", "subs", "tasks">>

\* What main goes on to when the custom fields are in place (step "fields")
\* or when the migrator named step has returned.
MigratorAfter(step) ==
    LET order == <<"fields">> \o Migrators
    IN order[1 + CHOOSE n \in DOMAIN order : order[n] = step]

\* The errors the destination answers custom-field requests with, at most.
MaxFaults == 1

\* What a lookup of a custom field may do: return the field when it exists,
\* raise the destination's "not found" when it does not, or raise some other
\* error (the request did not get through).
LookupOutcomes(present) == IF present THEN {"found", "error"} ELSE {"not_found", "error"}

\* What a create call may do: create the field, or raise.
CreateOutcomes == {"created", "error"}

\* A slip: the create call is made whatever the lookup returned.
EnsureFieldAlways(lookup) ==
    [exists |-> FALSE, create |-> TRUE, raised |-> "none"]

\* A slip: only the destination's "not found" is caught.
EnsureFieldNarrowCatch(lookup) ==
    [exists |-> lookup = "found", create |-> lookup = "not_found",
     raised |-> IF lookup = "error" THEN "error" ELSE "none"]

\* One check, lines 371-377 (and 379-385, 387-393):
\*   try: exists = lookup()   except: exists = False   if not exists: create()
EnsureField(lookup) ==
    [exists |-> lookup = "found", create |-> lookup # "found", raised |-> "none"]

\* main, lines 363-393: the three custom-field checks, for the global
\* AsanaID field, the project's Due Date field and the project's AsanaID
\* field.  An error of a create call is not caught and ends the run.
EnsureFields ==
    /\ pc = "fields"
    /\ LET present == << "AsanaID" \in d_fields,
                         <<yt_proj.id, "Due Date">> \in d_pfields,
                         <<yt_proj.id, "AsanaID">> \in d_pfields >>
       IN \E o \in [1..3 -> {"found", "not_found", "error"}] : \E c \in [1..3 -> CreateOutcomes] :
            /\ \A k \in 1..3 : o[k] \in LookupOutcomes(present[k])
            /\ faults = MaxFaults => \A k \in 1..3 : o[k] # "error" /\ c[k] = "created"
            /\ LET e == [k \in 1..3 |-> EnsureField(o[k])]
                   stops == [k \in 1..3 |-> e[k].raised # "none" \/ (e[k].create /\ c[k] = "error")]
                   reached == [k \in 1..3 |-> \A j \in 1..(k - 1) : ~stops[j]]
                   called == [k \in 1..3 |-> reached[k] /\ e[k].raised = "none" /\ e[k].create]
                   made == [k \in 1..3 |-> called[k] /\ c[k] = "created"]
                   crash == \E k \in 1..3 : reached[k] /\ stops[k]
                   errors == Cardinality({k \in 1..3 : reached[k] /\ o[k] = "error"})
                                + Cardinality({k \in 1..3 : called[k] /\ c[k] = "error"})
               IN /\ faults + errors <= MaxFaults
                  /\ faults' = faults + errors
                  /\ d_fields' = d_fields \cup (IF made[1] THEN {"AsanaID"} ELSE {})
                  /\ d_pfields' = d_pfields
                        \cup (IF made[2] THEN {<<yt_proj.id, "Due Date">>} ELSE {})
                        \cup (IF made[3] THEN {<<yt_proj.id, "AsanaID">>} ELSE {})
                  /\ pc' = IF crash THEN "crashed" ELSE MigratorAfter("fields")
                  /\ last' = [op |-> "fields", proj |-> yt_proj, present |-> present,
                              lookups |-> [k \in 1..3 |-> IF reached[k] THEN o[k] ELSE "none"],
                              creates |-> called,
                              raised |-> IF crash THEN "YouTrackException" ELSE "none",
                              by_lookup |-> \E k \in 1..3 : reached[k] /\ e[k].raised # "none"]
                  /\ trail' = IF crash THEN trail ELSE Append(trail, "fields")
    /\ UNCHANGED <<mergeVars, timeVars, cacheVars, srcVars, d_projects, d_users, d_subs, d_issues, cache, runs, budget,
                   a_workspaces, yt_projects, a_work, yt_proj, user_map, project_map,
                   task_map, asana_id_map, a_users, numberInProject, users_left,
                   created, changed, quiet, seen, numbered>>

\* A slip: the list is built from the source users whose e-mail is new.
NewUsersArgFromUsers(new_emails) ==
    LET ids == SortedSeq({id \in AUserIds : users_find_by_id(id).email \in new_emails})
    IN [raised |-> "none",
        users |-> [n \in DOMAIN ids |->
                     [login |-> RemoveWhitespace(users_find_by_id(ids[n]).name),
                      fullName |-> users_find_by_id(ids[n]).name,
                      email |-> users_find_by_id(ids[n]).email]]]

\* The argument of importUsers, lines 181-182:
\*   [dict(login=..., fullName=..., email=...) for au in new_emails
\*                                             if au['email'] in new_emails]
\* au ranges over the e-mail strings, and au['email'] on a string raises
\* TypeError; only for an empty new_emails is the (empty) list built.
NewUsersArg(new_emails) ==
    IF new_emails = {} THEN [raised |-> "none", users |-> << >>]
    ELSE [raised |-> "TypeError", users |-> << >>]

\* yt_conn.importUsers(users)
RECURSIVE importUsers(_, _)
importUsers(users, new_users) ==
    IF new_users = << >> THEN users
    ELSE importUsers(Append(users, [kind |-> "obj", login |-> Head(new_users).login,
                                    fullName |-> Head(new_users).fullName,
                                    email |-> Head(new_users).email]),
                     Tail(new_users))

EmailsOf(list) == {list[n].email : n \in {x \in DOMAIN list : HasKey(list[x], "email")}}

\* migrate_workspace_users(a_conn, yt_conn, a_work)
migrate_workspace_users ==
    /\ pc = "users"
    /\ LET compact == users_find_by_workspace(a_work.id)
           a_list == [n \in DOMAIN compact |-> users_find_by_id(compact[n].id)]
           m1 == merge_into_map(a_list, "email", user_map)
           a_emails == EmailsOf(a_list)
           yt_list == getUsers
           m2 == merge_into_map(yt_list, "email", m1.map)
           yt_emails == EmailsOf(yt_list)
           new_emails == a_emails \ yt_emails
           arg == NewUsersArg(new_emails)
       IN /\ user_map' = m2.map
          /\ a_users' = [id \in {a_list[n].id : n \in DOMAIN a_list} |->
                            a_list[CHOOSE n \in DOMAIN a_list : a_list[n].id = id]]
          /\ d_users' = IF arg.raised = "none" THEN importUsers(d_users, arg.users)
                        ELSE d_users
          /\ created' = [created EXCEPT !.users = @ + Len(d_users') - Len(d_users)]
          /\ pc' = IF arg.raised = "none" THEN MigratorAfter("users") ELSE "crashed"
          /\ last' = [op |-> "users", a_users |-> a_list, yt_emails |-> yt_emails,
                      called |-> arg.raised = "none", submitted |-> arg.users,
                      raised |-> arg.raised]
    /\ trail' = IF pc' = "crashed" THEN trail ELSE Append(trail, "users")
    /\ UNCHANGED <<mergeVars, timeVars, faults, cacheVars, srcVars, d_projects, d_subs, d_issues, d_fields, d_pfields, cache,
                   runs, budget, a_workspaces, yt_projects, a_work, yt_proj, project_map,
                   task_map, asana_id_map, numberInProject, users_left, changed,
                   quiet, seen, numbered>>

NamesOf(list) == {list[n].name : n \in DOMAIN list}

OrdersOf(S) == {f \in [1..Cardinality(S) -> S] : \A x \in S : \E n \in DOMAIN f : f[n] = x}

\* yt_conn.createSubsystemDetailed(project, name, False, default_login)
createSubsystemDetailed(subs, project_id, name, flag, default_login) ==
    Append(subs, [kind |-> "obj", proj |-> project_id, name |-> name,
                  flag |-> flag, defaultAssignee |-> default_login])

\* The loop of lines 200-204 over new_subs, in the order the set yields them:
\* [subs, raised].  The owner is looked up through _project_map, _a_users
\* and _user_map; a missing key ends the loop with the subsystems created so far.
RECURSIVE CreateSubsystems(_, _, _, _)
CreateSubsystems(order, pm, subs, project_id) ==
    IF order = << >> THEN [subs |-> subs, raised |-> "none"]
    ELSE LET ns == Head(order)
             owner == pm[ns]["a"].owner
             who == IF owner = None THEN [raised |-> "TypeError", login |-> NoneStr]
                    ELSE a_id_to_yt_login(owner.id)
         IN IF who.raised # "none" THEN [subs |-> subs, raised |-> who.raised]
            ELSE CreateSubsystems(Tail(order), pm,
                    createSubsystemDetailed(subs, project_id, ns, FALSE, who.login),
                    project_id)

\* The source sub-projects migrate_projects_to_subsystems lists: the
\* archived ones, then the active ones.
ListedProjects(ws) ==
    LET compact == projects_find_all(ws, TRUE) \o projects_find_all(ws, FALSE)
    IN [n \in DOMAIN compact |-> projects_find_by_id(compact[n].id)]

\* migrate_projects_to_subsystems(a_conn, yt_conn, a_work, yt_proj)
migrate_projects_to_subsystems ==
    /\ pc = "subs"
    /\ LET a_projects == ListedProjects(a_work.id)
           m1 == merge_into_map(a_projects, "name", project_map)
           yt_subs == getSubsystems(yt_proj.id)
           m2 == merge_into_map(yt_subs, "name", m1.map)
           new_subs == NamesOf(a_projects) \ NamesOf(yt_subs)
       IN \E order \in OrdersOf(new_subs) :
            LET r == CreateSubsystems(order, m2.map, d_subs, yt_proj.id)
            IN /\ project_map' = m2.map
               /\ d_subs' = r.subs
               /\ created' = [created EXCEPT !.subs = @ + Len(r.subs) - Len(d_subs)]
               /\ pc' = IF r.raised = "none" THEN MigratorAfter("subs") ELSE "crashed"
               /\ last' = [op |-> "subs", a_projects |-> a_projects, before |-> yt_subs,
                           proj |-> yt_proj, raised |-> r.raised]
    /\ trail' = IF pc' = "crashed" THEN trail ELSE Append(trail, "subs")
    /\ UNCHANGED <<mergeVars, timeVars, faults, cacheVars, srcVars, d_projects, d_users, d_issues, d_fields, d_pfields, cache,
                   runs, budget, a_workspaces, yt_projects, a_work, yt_proj, user_map,
                   task_map, asana_id_map, a_users, numberInProject, users_left,
                   changed, quiet, seen, numbered>>

\* The loop of lines 262-273 over a task's stories: the comments, and the
\* reporter the first qualifying system story gives.  [comments, reporter, raised]
RECURSIVE ScanStories(_, _, _)
ScanStories(a_stories, comments, reporter_name) ==
    IF a_stories = << >>
    THEN [comments |-> comments, reporter |-> reporter_name, raised |-> "none"]
    ELSE LET s == Head(a_stories)
             who == a_id_to_yt_login(s.created_by.id)
         IN IF s.type = "comment"
            THEN IF who.raised # "none"
                 THEN [comments |-> comments, reporter |-> reporter_name, raised |-> who.raised]
                 ELSE ScanStories(Tail(a_stories),
                                  Append(comments, [author |-> who.login, text |-> s.text]),
                                  reporter_name)
            ELSE IF s.type = "system" /\ reporter_name = NoneStr
                    /\ Prefix9(s.text) \in ReporterPrefixes
                 THEN IF who.raised # "none"
                      THEN [comments |-> comments, reporter |-> reporter_name, raised |-> who.raised]
                      ELSE ScanStories(Tail(a_stories), comments, who.login)
                 ELSE ScanStories(Tail(a_stories), comments, reporter_name)

\* Lines 281-285: the reporter when no story gave one.  The task is asked
\* for the key 'asignee', which no task payload has.
FallbackReporter(a) ==
    IF HasKey(a, "asignee") /\ a["asignee"] # None
    THEN a_id_to_yt_login(a.assignee.id)
    ELSE [raised |-> "none", login |-> yt_login]

\* Lines 287-315: the issue built for task a.  [raised, issue]
BuildIssue(a, scan, number) ==
    LET rep == IF scan.reporter = NoneStr THEN FallbackReporter(a)
               ELSE [raised |-> "none", login |-> scan.reporter]
        asg == IF a.assignee = None THEN [raised |-> "TypeError", login |-> NoneStr]
               ELSE a_id_to_yt_login(a.assignee.id)
        base == [kind |-> "obj", proj |-> << >>, comments |-> scan.comments,
                 reporterName |-> rep.login, AsanaID |-> StrOf(a.id),
                 numberInProject |-> StrOf(number), summary |-> a.name,
                 state |-> IF a.completed THEN "Fixed" ELSE "Submitted",
                 assignee |-> asg.login]
    IN IF rep.raised # "none" THEN [raised |-> rep.raised, issue |-> None]
       ELSE IF asg.raised # "none" THEN [raised |-> asg.raised, issue |-> None]
       ELSE [raised |-> "none",
             issue |-> IF Len(a.projects) > 0
                       THEN ("subsystem" :> a.projects[1].name) @@ base
                       ELSE base]

\* Line 249: the task is skipped.
SkipTask(a, tm, aim) == "yt" \in DOMAIN tm[a.name] \/ StrOf(a.id) \in DOMAIN aim

\* The loop of lines 247-318 over the tasks of one user:
\* [new_issues, number, cache, fetches, skipped, raised]
RECURSIVE BuildIssues(_, _, _, _)
BuildIssues(a_tasks, tm, aim, acc) ==
    IF a_tasks = << >> THEN acc
    ELSE LET a == Head(a_tasks) IN
         IF SkipTask(a, tm, aim)
         THEN BuildIssues(Tail(a_tasks), tm, aim,
                          [acc EXCEPT !.skipped = Append(@, a.id)])
         ELSE LET st == get_task_stories(a, acc.cache)
                  sd == get_story_details(st.resp, st.cache)
                  scan == ScanStories(sd.resp, << >>, NoneStr)
                  built == BuildIssue(a, scan, acc.number)
                  acc1 == [acc EXCEPT !.cache = sd.cache,
                                      !.fetches = @ \o st.fetches \o sd.fetches]
              IN IF scan.raised # "none" THEN [acc1 EXCEPT !.raised = scan.raised]
                 ELSE IF built.raised # "none" THEN [acc1 EXCEPT !.raised = built.raised]
                 ELSE BuildIssues(Tail(a_tasks), tm, aim,
                                  [acc1 EXCEPT !.new_issues = Append(@, built.issue),
                                               !.number = @ + 1])

\* max(numberInProject, int(i.numberInProject)) over the fetched issues.
RECURSIVE MaxNumberIn(_, _)
MaxNumberIn(yt_issues, n) ==
    IF yt_issues = << >> THEN n
    ELSE LET m == IntOf(Head(yt_issues).numberInProject)
         IN MaxNumberIn(Tail(yt_issues), IF m > n THEN m ELSE n)

\* migrate_tasks_to_issues, line 214: the counter starts at 0 for every
\* workspace and the loop visits the users of _a_users.
migrate_tasks_to_issues ==
    /\ pc = "tasks"
    /\ numberInProject' = 0
    /\ users_left' = SelectSeq(iter_order, LAMBDA u : u \in DOMAIN a_users)
    /\ pc' = "tasks_loop"
    /\ last' = [op |-> "tasks"]
    /\ trail' = Append(trail, "tasks")
    /\ UNCHANGED <<mergeVars, timeVars, faults, cacheVars, srcVars, destVars, cache, runs, budget, a_workspaces, yt_projects, a_work,
                   yt_proj, user_map, project_map, task_map, asana_id_map, a_users,
                   created, changed, quiet, seen, numbered>>

\* migrate_tasks_to_issues returns to main's loop.
migrate_tasks_return ==
    /\ pc = "tasks_loop"
    /\ users_left = << >>
    /\ pc' = "workspace"
    /\ last' = NoStep
    /\ trail' = Append(trail, "tasks_done")
    /\ UNCHANGED <<mergeVars, timeVars, faults, cacheVars, srcVars, destVars, cache, runs, budget, a_workspaces, yt_projects, a_work,
                   yt_proj, user_map, project_map, task_map, asana_id_map, a_users,
                   numberInProject, users_left, created, changed, quiet, seen, numbered>>

\* One turn of the loop of lines 215-321: a user without tasks is passed over.
TasksOfUserNone ==
    /\ pc = "tasks_loop"
    /\ users_left # << >>
    /\ tasks_find_all(a_work.id, Head(users_left)) = << >>
    /\ users_left' = Tail(users_left)
    /\ last' = [op |-> "no_tasks", user |-> Head(users_left)]
    /\ UNCHANGED <<mergeVars, timeVars, faults, trail, cacheVars, srcVars, destVars, cache, pc, runs, budget, a_workspaces, yt_projects,
                   a_work, yt_proj, user_map, project_map, task_map, asana_id_map,
                   a_users, numberInProject, created, changed, quiet, seen, numbered>>

\* One turn of the loop of lines 215-321 for a user with tasks: the details
\* (through the cache), the user's destination issues, the new issues, the
\* import.
TasksOfUser ==
    /\ pc = "tasks_loop"
    /\ users_left # << >>
    /\ tasks_find_all(a_work.id, Head(users_left)) # << >>
    /\ LET a_id == Head(users_left)
           a_user == a_users[a_id]
           det == get_task_details(tasks_find_all(a_work.id, a_id), cache)
           a_tasks == det.resp
           m1 == merge_into_map(a_tasks, "name", task_map)
           has_login == a_user.email \in DOMAIN user_map /\ "yt" \in DOMAIN user_map[a_user.email]
           yt_issues == IF has_login
                        THEN getIssues(yt_proj.id, user_map[a_user.email]["yt"].login)
                        ELSE << >>
           m2 == merge_into_map(yt_issues, "summary", m1.map)
           m3 == merge_into_map(yt_issues, "AsanaID", asana_id_map)
           first == MaxNumberIn(yt_issues, numberInProject) + 1
           r == BuildIssues(a_tasks, m2.map, m3.map,
                            [new_issues |-> << >>, number |-> first, cache |-> det.cache,
                             fetches |-> det.fetches, skipped |-> << >>, raised |-> "none"])
           raised == IF ~has_login THEN "KeyError" ELSE r.raised
       IN /\ users_left' = Tail(users_left)
          /\ task_map' = m2.map
          /\ asana_id_map' = m3.map
          /\ cache' = IF has_login THEN r.cache ELSE det.cache
          /\ numberInProject' = IF has_login THEN r.number ELSE numberInProject
          /\ d_issues' = IF raised = "none" THEN importIssues(d_issues, yt_proj.id, r.new_issues)
                         ELSE d_issues
          /\ created' = [created EXCEPT !.issues = @ + Len(d_issues') - Len(d_issues)]
          /\ seen' = seen \cup Range(yt_issues)
          /\ numbered' = numbered \o [n \in DOMAIN r.new_issues |->
                                         <<yt_proj.id, IntOf(r.new_issues[n].numberInProject)>>]
          /\ pc' = IF raised = "none" THEN "tasks_loop" ELSE "crashed"
          /\ last' = [op |-> "issues", user |-> a_id, proj |-> yt_proj, a_tasks |-> a_tasks,
                      yt_issues |-> yt_issues, before |-> d_issues, earlier |-> numbered,
                      new_issues |-> IF has_login THEN r.new_issues ELSE << >>,
                      skipped |-> IF has_login THEN r.skipped ELSE << >>,
                      fetches |-> IF has_login THEN r.fetches ELSE det.fetches,
                      imported |-> raised = "none", raised |-> raised]
    /\ trail' = IF pc' = "crashed" THEN trail ELSE Append(trail, "issues")
    /\ UNCHANGED <<mergeVars, timeVars, faults, cacheVars, srcVars, d_projects, d_users, d_subs, d_fields, d_pfields, runs, budget,
                   a_workspaces, yt_projects, a_work, yt_proj, user_map, project_map,
                   a_users, changed, quiet>>

\* Between runs somebody reassigns a task in the source.
ReassignTask ==
    /\ pc \in {"idle", "done", "crashed"}
    /\ \E t \in TaskIds : \E u \in MembersOf(src_tasks[t].ws) :
         /\ src_tasks[t].assignee # u
         /\ src_tasks' = [src_tasks EXCEPT ![t].assignee = u]
    /\ changed' = TRUE
    /\ UNCHANGED <<mergeVars, timeVars, faults, trail, cacheVars, src_stories, src_projects, iter_order, destVars, cache, runVars,
                   created, quiet, last, seen, numbered>>

\* ------------------------------------------------------------------------
\* The worlds main is run in
\* ------------------------------------------------------------------------
TxtHi == <<"h", "i">>
TxtAssigned == <<"a", "s", "s", "i", "g", "n", "e", "d", " ", "t", "o", " ", "B", "o", "b">>
TxtAddedTo == <<"a", "d", "d", "e", "d", " ", "t", "o", " ", "d", "e", "v">>
TxtAddedSub == <<"a", "d", "d", "e", "d", " ", "s", "u", "b", "t", "a", "s", "k">>
TxtAddedThe == <<"a", "d", "d", "e", "d", " ", "t", "h", "e", " ", "d", "u", "e">>

Story(id, type, text, by) ==
    [kind |-> "dict", id |-> id, type |-> type, text |-> text, created_by |-> [id |-> by]]

\* The stories task 1 may have.
StoryOptions ==
    { << >>,
      << Story(11, "comment", TxtHi, 2), Story(12, "system", TxtAddedThe, 2),
         Story(13, "system", TxtAddedTo, 1) >>,
      << Story(11, "system", TxtAddedSub, 1), Story(12, "system", TxtAssigned, 2) >> }

SubProject(id, name, owner, archived, ws) ==
    [kind |-> "dict", id |-> id, name |-> name, owner |-> [id |-> owner],
     archived |-> archived, ws |-> ws]

DestUser(id) ==
    [kind |-> "obj", login |-> IF id = 1 THEN "ann" ELSE "bob",
     email |-> users_find_by_id(id).email]

DevProject == [kind |-> "obj", name |-> WsDev, id |-> ProjectIdOf(WsDev), lead |-> yt_login]
\* A project of another name that holds the id main would give workspace "q a".
OtherProject == [kind |-> "obj", name |-> <<"o">>, id |-> ProjectIdOf(WsQa), lead |-> yt_login]

OldIssue(summary, asana_id) ==
    LET base == [kind |-> "obj", proj |-> DevProject.id, comments |-> << >>,
                 reporterName |-> yt_login, numberInProject |-> "1",
                 summary |-> summary, state |-> "Submitted", assignee |-> "bob"]
    IN IF asana_id = NoneStr THEN base ELSE ("AsanaID" :> asana_id) @@ base

OldSubsystem ==
    [kind |-> "obj", proj |-> DevProject.id, name |-> "S2", flag |-> FALSE,
     defaultAssignee |-> yt_login]

\* What the destination project "dev" may hold before the first run.
DevContents ==
    { [issues |-> << >>, subs |-> << >>],
      [issues |-> << OldIssue("X", NoneStr) >>, subs |-> << >>],
      [issues |-> << OldIssue("Z", "1") >>, subs |-> << OldSubsystem >>] }

RunIdle ==
    /\ pc = "idle"
    /\ runs = 0
    /\ a_workspaces = << >>
    /\ yt_projects = << >>
    /\ a_work = None
    /\ yt_proj = None
    /\ user_map = EmptyMap
    /\ project_map = EmptyMap
    /\ task_map = EmptyMap
    /\ asana_id_map = EmptyMap
    /\ a_users = EmptyMap
    /\ numberInProject = 0
    /\ users_left = << >>
    /\ created = NoCreated
    /\ changed = FALSE
    /\ quiet = FALSE
    /\ last = NoStep
    /\ seen = {}
    /\ numbered = << >>
    /\ trail = << >>

TimeIdle ==
    /\ t_stamp = << >>
    /\ t_zone = 0
    /\ t_time = << >>
    /\ t_date = << >>

CacheIdle ==
    /\ c_calls = 0
    /\ fetch_log = EmptyMap
    /\ corrupted = {}

MergeIdle ==
    /\ m_map = EmptyMap
    /\ m_list = << >>
    /\ m_version = "none"
    /\ m_result = [raised |-> "none", logged |-> FALSE]
    /\ m_calls = 0
    /\ m_akeys = {}
    /\ m_ytkeys = {}

World ==
    /\ \E ws2 \in {101, 102} : \E name2 \in {"X", "Y"} :
         src_tasks = [t \in TaskIds |->
            IF t = 1 THEN [name |-> "X", assignee |-> 2, ws |-> 101, completed |-> FALSE,
                           projects |-> << [name |-> "S1"] >>]
            ELSE [name |-> name2, assignee |-> IF ws2 = 101 THEN 0 ELSE 2, ws |-> ws2,
                  completed |-> TRUE, projects |-> << >>]]
    /\ \E st \in StoryOptions :
         src_stories = [t \in TaskIds |->
            IF t = 1 THEN st ELSE << Story(21, "comment", TxtHi, 2) >>]
    /\ \E name2 \in {"S1", "S2"} : \E more \in {<< >>, << SubProject(203, "S3", 2, FALSE, 102) >>} :
         src_projects = << SubProject(201, "S1", 1, TRUE, 101),
                           SubProject(202, name2, 2, FALSE, 101) >> \o more
    /\ iter_order \in OrdersOf(AUserIds)
    /\ d_projects \in {<< >>, <<DevProject>>, <<DevProject, OtherProject>>}
    /\ \E present \in SUBSET AUserIds :
         d_users = << [kind |-> "obj", login |-> yt_login, email |-> "root@x"],
                      [kind |-> "obj", login |-> "guest"] >>
                   \o [n \in 1..Cardinality(present) |-> DestUser(SortedSeq(present)[n])]
    /\ \E dev \in (IF d_projects = << >> THEN {[issues |-> << >>, subs |-> << >>]}
                   ELSE DevContents) :
         /\ d_subs = dev.subs
         /\ d_issues = dev.issues
    /\ d_fields = {}
    /\ d_pfields = {}
    /\ cache = EmptyMap
    /\ RunIdle
    /\ MergeIdle
    /\ CacheIdle
    /\ TimeIdle

\* Two runs in any of the worlds, with a destination that answers every
\* custom-field request.
InitRoot == World /\ budget = MaxRuns /\ faults = MaxFaults

\* The same, for the worlds whose second workspace has no sub-project.
Init == InitRoot /\ Len(src_projects) = 2

\* A world in which everything is in place for the migration to go through,
\* and in which main is run once more.
InitRerun ==
    /\ World
    /\ budget = MaxRuns + 1
    /\ faults = 0
    /\ d_projects = <<DevProject>>
    /\ d_issues = << >>
    /\ Len(d_users) = 2 + Cardinality(AUserIds)
    /\ src_stories[1] = << >>
    /\ src_tasks[2].ws = 101
    /\ src_tasks[2].name = "Y"
    /\ src_projects[2].name = "S2"
    /\ Len(src_projects) = 2

Next ==
    \/ StartRun
    \/ ResolveProject
    \/ Finish
    \/ EnsureFields
    \/ migrate_workspace_users
    \/ migrate_projects_to_subsystems
    \/ migrate_tasks_to_issues
    \/ migrate_tasks_return
    \/ TasksOfUserNone
    \/ TasksOfUser
    \/ ReassignTask

Spec == Init /\ [][Next]_vars

SpecRerun == InitRerun /\ [][Next]_vars

\* One run of main in any of the worlds of Init.
InitOneRun == World /\ budget = 1 /\ faults = MaxFaults /\ Len(src_projects) = 2

SpecOneRun == InitOneRun /\ [][Next]_vars

\* ------------------------------------------------------------------------
\* main, src/asana2youtrack.py
\* ------------------------------------------------------------------------
\* The local yt_proj of main before its first assignment.
Unbound == [kind |-> "unbound"]

\* main, lines 143-154
StartRunRoot ==
    /\ pc \in {"idle", "done", "crashed"}
    /\ runs < budget
    /\ runs' = runs + 1
    /\ pc' = "root_workspace"
    /\ a_workspaces' = SelectSeq(workspaces_find_all, LAMBDA w : w.name # PersonalProjects)
    /\ yt_projects' = getProjects
    /\ a_work' = None
    /\ yt_proj' = Unbound
    /\ user_map' = EmptyMap
    /\ project_map' = EmptyMap
    /\ task_map' = EmptyMap
    /\ asana_id_map' = EmptyMap
    /\ a_users' = EmptyMap
    /\ numberInProject' = 0
    /\ users_left' = << >>
    /\ created' = NoCreated
    /\ quiet' = (pc = "done" /\ ~changed)
    /\ changed' = FALSE
    /\ last' = NoStep
    /\ seen' = {}
    /\ numbered' = << >>
    /\ UNCHANGED <<mergeVars, timeVars, faults, trail, cacheVars, srcVars, destVars, cache, budget>>

\* main, lines 156-163: the next workspace.  A missing project is announced
\* ("Creating YouTrack Project ...") and not created; yt_proj is assigned only
\* when a project of the workspace's name is found, and keeps what it held
\* otherwise.
ResolveProjectRoot ==
    /\ pc = "root_workspace"
    /\ a_workspaces # << >>
    /\ LET work == Head(a_workspaces)
           found == FindProject(yt_projects, work.name)
           proj == IF found = None THEN yt_proj ELSE found
       IN /\ a_work' = work
          /\ a_workspaces' = Tail(a_workspaces)
          /\ yt_proj' = proj
          /\ pc' = "root_users"
          /\ last' = [op |-> "project", work |-> work, proj |-> proj,
                      found |-> found # None, raised |-> "none"]
    /\ UNCHANGED <<mergeVars, timeVars, faults, trail, cacheVars, srcVars, destVars, cache, runs, budget, yt_projects, user_map,
                   project_map, task_map, asana_id_map, a_users, numberInProject, users_left,
                   created, changed, quiet, seen, numbered>>

\* main, line 156: the loop over the workspaces is over.
FinishRoot ==
    /\ pc = "root_workspace"
    /\ a_workspaces = << >>
    /\ pc' = "done"
    /\ last' = NoStep
    /\ UNCHANGED <<mergeVars, timeVars, faults, trail, cacheVars, srcVars, destVars, cache, runs, budget, a_workspaces, yt_projects, a_work,
                   yt_proj, user_map, project_map, task_map, asana_id_map, a_users,
                   numberInProject, users_left, created, changed, quiet, seen, numbered>>

\* migrate_workspace_users(a_conn, yt_conn, a_work), src/asana2youtrack.py
migrate_workspace_users_root ==
    /\ pc = "root_users"
    /\ LET compact == users_find_by_workspace(a_work.id)
           a_list == [n \in DOMAIN compact |-> users_find_by_id(compact[n].id)]
           m1 == merge_into_map_root(a_list, "email", user_map)
           a_emails == EmailsOf(a_list)
           yt_list == getUsers
           m2 == merge_into_map_root(yt_list, "email", m1.map)
           yt_emails == EmailsOf(yt_list)
           new_emails == a_emails \ yt_emails
           arg == NewUsersArg(new_emails)
           raised == IF m1.raised # "none" THEN m1.raised
                     ELSE IF m2.raised # "none" THEN m2.raised
                     ELSE arg.raised
       IN /\ user_map' = IF m1.raised # "none" THEN m1.map ELSE m2.map
          /\ a_users' = IF raised \in {m1.raised, m2.raised} /\ raised # "none" THEN a_users
                        ELSE [id \in {a_list[n].id : n \in DOMAIN a_list} |->
                                 a_list[CHOOSE n \in DOMAIN a_list : a_list[n].id = id]]
          /\ d_users' = IF raised = "none" THEN importUsers(d_users, arg.users) ELSE d_users
          /\ created' = [created EXCEPT !.users = @ + Len(d_users') - Len(d_users)]
          /\ pc' = IF raised = "none" THEN "root_subs" ELSE "crashed"
          /\ last' = [op |-> "users", a_users |-> a_list, yt_emails |-> yt_emails,
                      called |-> raised = "none", submitted |-> arg.users, raised |-> raised]
    /\ UNCHANGED <<mergeVars, timeVars, faults, trail, cacheVars, srcVars, d_projects, d_subs, d_issues, d_fields, d_pfields, cache,
                   runs, budget, a_workspaces, yt_projects, a_work, yt_proj, project_map,
                   task_map, asana_id_map, numberInProject, users_left, changed,
                   quiet, seen, numbered>>

\* The source sub-projects the migrator of src/asana2youtrack.py lists: the
\* active ones only.
ListedProjectsRoot(ws) ==
    LET compact == projects_find_all(ws, FALSE)
    IN [n \in DOMAIN compact |-> projects_find_by_id(compact[n].id)]

\* main, line 168, and migrate_projects_to_subsystems(a_conn, yt_conn, a_work,
\* yt_proj) of src/asana2youtrack.py.  Reading an unassigned yt_proj raises
\* before the call; the list of source sub-projects is merged twice and the
\* destination subsystems are never merged.
migrate_projects_to_subsystems_root ==
    /\ pc = "root_subs"
    /\ IF yt_proj = Unbound
       THEN /\ pc' = "crashed"
            /\ last' = [op |-> "main", raised |-> "UnboundLocalError"]
            /\ UNCHANGED <<project_map, d_subs, created>>
       ELSE LET a_projects == ListedProjectsRoot(a_work.id)
                m1 == merge_into_map_root(a_projects, "name", project_map)
                yt_subs == getSubsystems(yt_proj.id)
                m2 == merge_into_map_root(a_projects, "name", m1.map)
                new_subs == NamesOf(a_projects) \ NamesOf(yt_subs)
            IN IF m1.raised # "none"
               THEN /\ project_map' = m1.map
                    /\ pc' = "crashed"
                    /\ last' = [op |-> "subs", a_projects |-> a_projects, before |-> << >>,
                                proj |-> yt_proj, raised |-> m1.raised]
                    /\ UNCHANGED <<d_subs, created>>
               ELSE \E order \in OrdersOf(new_subs) :
                      LET r == CreateSubsystems(order, m2.map, d_subs, yt_proj.id)
                      IN /\ project_map' = m2.map
                         /\ d_subs' = r.subs
                         /\ created' = [created EXCEPT !.subs = @ + Len(r.subs) - Len(d_subs)]
                         /\ pc' = IF r.raised = "none" THEN "root_workspace" ELSE "crashed"
                         /\ last' = [op |-> "subs", a_projects |-> a_projects,
                                     before |-> yt_subs, proj |-> yt_proj, raised |-> r.raised]
    /\ UNCHANGED <<mergeVars, timeVars, faults, trail, cacheVars, srcVars, d_projects, d_users, d_issues, d_fields, d_pfields, cache,
                   runs, budget, a_workspaces, yt_projects, a_work, yt_proj, user_map,
                   task_map, asana_id_map, a_users, numberInProject, users_left,
                   changed, quiet, seen, numbered>>

NextRoot ==
    \/ StartRunRoot
    \/ ResolveProjectRoot
    \/ FinishRoot
    \/ migrate_workspace_users_root
    \/ migrate_projects_to_subsystems_root

SpecRoot == InitRoot /\ [][NextRoot]_vars

\* ------------------------------------------------------------------------
\* Properties of main
\* ------------------------------------------------------------------------

\* C1: running main twice in succession against the same destination, with
\* no source-side change between the two runs, creates no destination user,
\* no subsystem and no issue during the second run.
C1_SecondRunCreatesNothing ==
    (pc = "done" /\ quiet) => created = NoCreated

\* A new issue was built for task a in the last turn of the task loop.
BuiltFor(a) == \E n \in DOMAIN last.new_issues : last.new_issues[n].AsanaID = StrOf(a.id)

\* Some issue of the set has the task's name as summary, or the task's
\* stringified id as AsanaID.
SummaryMatch(a, issues) == \E i \in issues : i.summary = a.name
AsanaIdMatch(a, issues) == \E i \in issues : HasKey(i, "AsanaID") /\ i.AsanaID = StrOf(a.id)

\* C2: in migrate_tasks_to_issues no issue is built for a task of
\* the user being processed when a destination issue already exists whose
\* summary equals the task's name, nor when one exists whose AsanaID equals
\* the stringified task id; a task with neither match is imported.
C2_SkipWhenDestinationHasMatch ==
    (last.op = "issues" /\ last.raised = "none") =>
        \A n \in DOMAIN last.a_tasks :
            LET a == last.a_tasks[n] IN
            /\ SummaryMatch(a, Range(last.before)) => ~BuiltFor(a)
            /\ AsanaIdMatch(a, Range(last.before)) => ~BuiltFor(a)
            /\ (~SummaryMatch(a, Range(last.before)) /\ ~AsanaIdMatch(a, Range(last.before)))
                  => BuiltFor(a)

\* What the skip test does see: the destination issues the run has
\* fetched so far, that is those assigned to the login of the user being
\* processed or of a user processed before.  A task with a match among these
\* is skipped, and every other task gets exactly one new issue.
FetchedMatchSkips ==
    (last.op = "issues" /\ last.raised = "none") =>
        \A n \in DOMAIN last.a_tasks :
            LET a == last.a_tasks[n]
                match == SummaryMatch(a, seen) \/ AsanaIdMatch(a, seen)
            IN /\ match => (~BuiltFor(a) /\ \E k \in DOMAIN last.skipped : last.skipped[k] = a.id)
               /\ ~match => /\ last.imported
                            /\ Cardinality({k \in DOMAIN last.new_issues :
                                   last.new_issues[k].AsanaID = StrOf(a.id)}) = 1

\* The numbers of the issues a project holds.
NumbersIn(issues, project_id) ==
    {IntOf(issues[n].numberInProject) : n \in {x \in DOMAIN issues : issues[x].proj = project_id}}

MaxOf(S) == IF S = {} THEN 0 ELSE CHOOSE x \in S : \A y \in S : y <= x

\* C3: every issue migrate_tasks_to_issues builds carries a numberInProject
\* that no issue already in the destination project has and no other issue
\* built in the run has; the numbers increase strictly in creation order
\* across the users processed; and the numbering starts one above the
\* largest number present in the destination project.
C3_NumbersUniqueAndIncreasing ==
    last.op = "issues" =>
        LET new == [n \in DOMAIN last.new_issues |-> IntOf(last.new_issues[n].numberInProject)]
            present == NumbersIn(last.before, last.proj.id)
            earlier == {last.earlier[n][2] : n \in {x \in DOMAIN last.earlier :
                                                      last.earlier[x][1] = last.proj.id}}
        IN /\ \A n \in DOMAIN new : new[n] \notin present
           /\ \A n \in DOMAIN new : \A e \in earlier : e < new[n]
           /\ \A n, k \in DOMAIN new : n < k => new[n] < new[k]
           /\ (new # << >> /\ earlier = {}) => new[1] = MaxOf(present) + 1

\* The destination login of a source user: that of the last listed
\* destination user with the source user's e-mail.
DestLoginOf(id) ==
    LET email == users_find_by_id(id).email
        at == {n \in DOMAIN d_users : HasKey(d_users[n], "email") /\ d_users[n].email = email}
    IN d_users[MaxOf(at)].login

\* The author of the first story, in list order, of kind system whose text
\* begins with "assigned ", "added to " or "added sub"; 0 when there is none.
RECURSIVE FirstReporterStory(_)
FirstReporterStory(stories) ==
    IF stories = << >> THEN 0
    ELSE IF Head(stories).type = "system" /\ Prefix9(Head(stories).text) \in ReporterPrefixes
         THEN Head(stories).created_by.id
         ELSE FirstReporterStory(Tail(stories))

\* C6: the reporter of every newly built issue is the destination login of
\* the author of the first qualifying system story; without such a story it
\* is the destination login of the task's assignee when the task has one,
\* and the operator's login only when it has none.
C6_Reporter ==
    last.op = "issues" =>
        \A n \in DOMAIN last.a_tasks :
            LET a == last.a_tasks[n]
                author == FirstReporterStory(src_stories[a.id])
                expected == IF author # 0 THEN DestLoginOf(author)
                            ELSE IF a.assignee # None THEN DestLoginOf(a.assignee.id)
                            ELSE yt_login
            IN \A k \in DOMAIN last.new_issues :
                  last.new_issues[k].AsanaID = StrOf(a.id)
                      => last.new_issues[k].reporterName = expected

\* C4: after migrate_workspace_users, for every source user whose e-mail no
\* destination user has, exactly one user with that e-mail was submitted to
\* importUsers, its login the display name without whitespace and its
\* fullName the display name; and nobody was submitted for an e-mail the
\* destination already has.
C4_NewUsersSubmitted ==
    last.op = "users" =>
        /\ \A n \in DOMAIN last.a_users :
              LET au == last.a_users[n]
                  mine == {k \in DOMAIN last.submitted : last.submitted[k].email = au.email}
              IN au.email \notin last.yt_emails =>
                    /\ last.called
                    /\ Cardinality(mine) = 1
                    /\ \A k \in mine :
                          /\ last.submitted[k].login = RemoveWhitespace(au.name)
                          /\ last.submitted[k].fullName = au.name
        /\ \A k \in DOMAIN last.submitted : last.submitted[k].email \notin last.yt_emails

\* The source sub-projects of a workspace, archived or active.
SubProjectsOf(ws) == {src_projects[n] : n \in {x \in DOMAIN src_projects : src_projects[x].ws = ws}}

\* C5: after migrate_projects_to_subsystems has run for a workspace and a
\* destination project, every source sub-project of the workspace, archived
\* or active, has exactly one destination subsystem of its name in that
\* project; none was created for a name that was there before; and each
\* created subsystem is non-private, its default assignee the destination
\* login of the owner of a sub-project of that name.
C5_SubsystemPerSubProject ==
    last.op = "subs" =>
        \A P \in SubProjectsOf(a_work.id) :
            LET mine == {n \in DOMAIN d_subs : d_subs[n].proj = last.proj.id
                                                /\ d_subs[n].name = P.name}
            IN /\ Cardinality(mine) = 1
               /\ \A n \in mine :
                     d_subs[n].name \notin NamesOf(last.before) =>
                        /\ d_subs[n].flag = FALSE
                        /\ \E Q \in SubProjectsOf(a_work.id) :
                              /\ Q.name = P.name
                              /\ d_subs[n].defaultAssignee = DestLoginOf(Q.owner.id)

\* C7: while main works on a workspace, the destination project it uses is
\* the project of the workspace's name, and that project exists on the
\* destination, found there or created.
C7_ProjectOfWorkspace ==
    a_work # None =>
        /\ yt_proj # Unbound
        /\ yt_proj.name = a_work.name
        /\ \E n \in DOMAIN d_projects : d_projects[n] = yt_proj

\* ------------------------------------------------------------------------
\* merge_into_map on bounded inputs
\* ------------------------------------------------------------------------
MaxList == 2
MaxMerges == 3

MergeKeys == {"k1", "k2"}
\* Source items (dicts) and destination items (objects, one without the key).
AItems == {[kind |-> "dict", name |-> k, v |-> n] : k \in MergeKeys, n \in {1, 2}}
              \cup {[kind |-> "dict", v |-> 5]}
YItems == {[kind |-> "obj", name |-> k, v |-> 3] : k \in MergeKeys}
              \cup {[kind |-> "obj", v |-> 4]}

SeqsUpTo(S, n) == UNION {[1..m -> S] : m \in 0..n}

MergeLists == SeqsUpTo(AItems, MaxList) \cup SeqsUpTo(YItems, MaxList)

KeysOf(i_list) == {i_list[n].name : n \in {x \in DOMAIN i_list : HasKey(i_list[x], "name")}}

\* The script at rest in an empty world, while merge_into_map is exercised.
MainParked ==
    /\ src_tasks = EmptyMap
    /\ src_stories = EmptyMap
    /\ src_projects = << >>
    /\ iter_order = << >>
    /\ d_projects = << >>
    /\ d_users = << >>
    /\ d_subs = << >>
    /\ d_issues = << >>
    /\ d_fields = {}
    /\ d_pfields = {}
    /\ cache = EmptyMap
    /\ budget = 0
    /\ faults = 0
    /\ RunIdle

InitMerge == MainParked /\ MergeIdle /\ CacheIdle /\ TimeIdle

MergeStep(i_list, version, r) ==
    /\ m_calls < MaxMerges
    /\ m_calls' = m_calls + 1
    /\ m_list' = i_list
    /\ m_version' = version
    /\ m_map' = r.map
    /\ m_result' = [raised |-> r.raised, logged |-> r.logged]
    /\ m_akeys' = IF i_list # << >> /\ IsDict(i_list[1]) /\ r.raised = "none"
                  THEN m_akeys \cup KeysOf(i_list) ELSE m_akeys
    /\ m_ytkeys' = IF i_list # << >> /\ ~IsDict(i_list[1]) /\ r.raised = "none"
                   THEN m_ytkeys \cup KeysOf(i_list) ELSE m_ytkeys
    /\ UNCHANGED <<mainVars, cacheVars, timeVars>>

CallMerge ==
    \E i_list \in MergeLists :
        MergeStep(i_list, "python", merge_into_map(i_list, "name", m_map))

CallMergeRoot ==
    \E i_list \in MergeLists :
        MergeStep(i_list, "root", merge_into_map_root(i_list, "name", m_map))

NextMerge == CallMerge \/ CallMergeRoot

SpecMerge == InitMerge /\ [][NextMerge]_vars

\* The side a list is merged under, and the other one.
SideOf(i_list) == IF IsDict(i_list[1]) THEN "a" ELSE "yt"
OtherSide(side) == IF side = "a" THEN "yt" ELSE "a"

\* What a merge of i_list may change in going from map `old` to map `new`:
\* only the list's own side of the entries whose keys occur in the list.
MergeFrame(old, new, i_list) ==
    LET other == OtherSide(SideOf(i_list)) IN
    /\ DOMAIN old \subseteq DOMAIN new
    /\ DOMAIN new \subseteq (DOMAIN old) \cup KeysOf(i_list)
    /\ \A key \in DOMAIN old :
          /\ other \in DOMAIN old[key] <=> other \in DOMAIN new[key]
          /\ other \in DOMAIN old[key] => new[key][other] = old[key][other]
          /\ key \notin KeysOf(i_list) => new[key] = old[key]
    /\ \A key \in (DOMAIN new) \ (DOMAIN old) : other \notin DOMAIN new[key]

\* C9: merge_into_map is non-destructive across sides.  Every call with a
\* non-empty list, of either copy of the function, changes only the list's
\* own side ('a' for a source list, 'yt' for a destination list) of the
\* entries whose keys occur in the list; every other side and every other
\* entry is left as it was.  So once a source list and a destination list
\* sharing a key have both been merged, in either order, that key's entry
\* holds both sides.
C9_MergeNonDestructive ==
    /\ [][(m_calls' # m_calls /\ m_list' # << >>)
            => MergeFrame(m_map, m_map', m_list')]_vars
    /\ [](\A key \in m_akeys \cap m_ytkeys :
            key \in DOMAIN m_map /\ DOMAIN m_map[key] = {"a", "yt"})

\* A source list was merged after a destination list with the same key (the
\* last call is the source one), and the entry holds both sides.
C9_Witness ==
    /\ m_calls >= 2
    /\ m_list # << >>
    /\ IsDict(m_list[1])
    /\ \E key \in KeysOf(m_list) \cap m_ytkeys :
          /\ DOMAIN m_map[key] = {"a", "yt"}
          /\ m_map[key]["yt"].v = 3

\* C10: merge_into_map called with an empty list logs an error and returns
\* normally: nothing is raised and the map is left unchanged.
C10_EmptyListReturns ==
    [][(m_calls' # m_calls /\ m_list' = << >>)
        => (/\ m_result'.logged
            /\ m_result'.raised = "none"
            /\ m_map' = m_map)]_vars

\* ------------------------------------------------------------------------
\* The cache functions on their own, over several runs, while the source
\* changes and files get damaged
\* ------------------------------------------------------------------------
MaxCalls == 3
MaxCorruptions == 1

InitCache ==
    /\ World
    /\ budget = 0
    /\ faults = 0
    /\ d_projects = << >>
    /\ Len(d_users) = 2
    /\ iter_order = SortedSeq(AUserIds)
    /\ Len(src_projects) = 2
    /\ src_projects[2].name = "S2"
    /\ src_tasks[2].ws = 101
    /\ src_tasks[2].name = "Y"
    /\ Len(src_stories[1]) = 2

\* The fetch counts after some more fetches.
RECURSIVE Logged(_, _)
Logged(log, fetches) ==
    IF fetches = << >> THEN log
    ELSE LET f == Head(fetches)
         IN Logged((f :> (IF f \in DOMAIN log THEN log[f] + 1 ELSE 1)) @@ log, Tail(fetches))

CacheStep(kind, ids, r) ==
    /\ c_calls < MaxCalls
    /\ c_calls' = c_calls + 1
    /\ cache' = r.cache
    /\ fetch_log' = Logged(fetch_log, r.fetches)
    /\ last' = [op |-> "cache", kind |-> kind, ids |-> ids, resp |-> r.resp,
                fetches |-> r.fetches]
    /\ UNCHANGED <<mergeVars, timeVars, faults, trail, srcVars, destVars, runVars, created, changed, quiet, seen,
                   numbered, corrupted>>

\* get_task_details(a_conn, a_tasks) for a list of compact tasks
CallTaskDetails ==
    \E ids \in SeqsUpTo(TaskIds, 2) \ {<< >>} :
        CacheStep("task", ids,
                  get_task_details([n \in DOMAIN ids |-> [kind |-> "dict", id |-> ids[n]]], cache))

\* get_task_stories(a_conn, a_task)
CallTaskStories ==
    \E id \in TaskIds :
        LET r == get_task_stories([kind |-> "dict", id |-> id], cache)
        IN CacheStep("task_stories", <<id>>,
                     [resp |-> <<r.resp>>, cache |-> r.cache, fetches |-> r.fetches])

\* get_story_details(a_conn, a_stories) for the story list of a task
CallStoryDetails ==
    \E t \in TaskIds :
        LET a_stories == stories_find_by_task(t)
        IN /\ a_stories # << >>
           /\ CacheStep("story", [n \in DOMAIN a_stories |-> a_stories[n].id],
                        get_story_details(a_stories, cache))

\* Somebody comments on a task at the source.
AddStory ==
    /\ \E t \in TaskIds :
         /\ \A n \in DOMAIN src_stories[t] : src_stories[t][n].id # 30 + t
         /\ src_stories' = [src_stories EXCEPT ![t] = Append(@, Story(30 + t, "comment", TxtHi, 1))]
    /\ changed' = TRUE
    /\ UNCHANGED <<mergeVars, timeVars, faults, trail, cacheVars, src_tasks, src_projects, iter_order, destVars, cache,
                   runVars, created, quiet, last, seen, numbered>>

\* Somebody completes a task at the source.
CompleteTask ==
    /\ \E t \in TaskIds :
         /\ ~src_tasks[t].completed
         /\ src_tasks' = [src_tasks EXCEPT ![t].completed = TRUE]
    /\ changed' = TRUE
    /\ UNCHANGED <<mergeVars, timeVars, faults, trail, cacheVars, src_stories, src_projects, iter_order, destVars, cache,
                   runVars, created, quiet, last, seen, numbered>>

\* A cache file is damaged on disk: json.load will raise on it.
CorruptFile ==
    /\ Cardinality(corrupted) < MaxCorruptions
    /\ \E f \in DOMAIN cache :
         /\ cache[f].ok
         /\ cache' = [cache EXCEPT ![f].ok = FALSE]
         /\ f \notin corrupted
         /\ corrupted' = corrupted \cup {f}
    /\ UNCHANGED <<mergeVars, timeVars, faults, srcVars, destVars, runVars, histVars, c_calls, fetch_log>>

NextCache ==
    \/ CallTaskDetails
    \/ CallTaskStories
    \/ CallStoryDetails
    \/ CompleteTask
    \/ AddStory
    \/ CorruptFile

SpecCache == InitCache /\ [][NextCache]_vars

\* The cache file of a kind and id, and what the source API answers for it.
FileOf(kind, id) ==
    IF kind = "task" THEN TaskFile(id)
    ELSE IF kind = "task_stories" THEN TaskStoriesFile(id)
    ELSE StoryFile(id)

AnswerOf(kind, id) ==
    IF kind = "task" THEN tasks_find_by_id(id)
    ELSE IF kind = "task_stories" THEN stories_find_by_task(id)
    ELSE stories_find_by_id(id)

TimesIn(log, f) == Cardinality({n \in DOMAIN log : log[n] = f})

\* C8: for each kind of cache file and each id, a call returns the stored
\* payload without asking the source when a parseable file for the id
\* exists, and otherwise asks the source, stores the answer under the id and
\* returns it; a call changes no other file.  So a file that was never
\* damaged is fetched at most once, and a parseable file never changes its
\* payload.
C8_GetOrFetch ==
    /\ [][c_calls' # c_calls =>
            /\ \A n \in DOMAIN last'.ids :
                  LET f == FileOf(last'.kind, last'.ids[n])
                      hit == f \in DOMAIN cache /\ cache[f].ok
                  IN /\ hit => /\ last'.resp[n] = cache[f].data
                               /\ TimesIn(last'.fetches, f) = 0
                               /\ cache'[f] = cache[f]
                     /\ ~hit => /\ last'.resp[n] = AnswerOf(last'.kind, last'.ids[n])
                                /\ TimesIn(last'.fetches, f) = 1
                                /\ cache'[f] = [ok |-> TRUE, data |-> last'.resp[n]]
            /\ \A f \in DOMAIN cache' :
                  TimesIn(last'.fetches, f) = 0 => (f \in DOMAIN cache /\ cache'[f] = cache[f])
         ]_vars
    /\ [][\A f \in DOMAIN cache :
            (cache[f].ok /\ cache'[f].ok) => cache'[f] = cache[f]]_vars
    /\ [](\A f \in DOMAIN cache :
            f \notin corrupted => (f \in DOMAIN fetch_log /\ fetch_log[f] = 1))

\* A call answered from a file although the source would answer otherwise by now.
C8_Witness ==
    /\ last.op = "cache"
    /\ last.fetches = << >>
    /\ \E n \in DOMAIN last.ids : last.resp[n] # AnswerOf(last.kind, last.ids[n])
    /\ \E f \in corrupted : fetch_log[f] = 2

\* ------------------------------------------------------------------------
\* a_to_yt_time and a_to_yt_date on bounded inputs
\* ------------------------------------------------------------------------
DigitChars == <<"0", "1", "2", "3", "4", "5", "6", "7", "8", "9">>

DigitVal(c) == CHOOSE d \in 0..9 : DigitChars[d + 1] = c

\* int(s) of a string of digits, as strptime reads a numeric field
RECURSIVE NumOf(_)
NumOf(s) ==
    IF s = << >> THEN 0 ELSE 10 * NumOf(SubSeq(s, 1, Len(s) - 1)) + DigitVal(s[Len(s)])

\* The decimal digits of a natural number.
RECURSIVE Digits(_)
Digits(n) ==
    IF n < 10 THEN <<DigitChars[n + 1]>>
    ELSE Digits(n \div 10) \o <<DigitChars[(n % 10) + 1]>>

\* str(n), and what strftime('%s') prints for a number of seconds
IntStr(n) == IF n < 0 THEN <<"-">> \o Digits(0 - n) ELSE Digits(n)

\* A number printed with at least w digits, as strftime('%f') prints six.
RECURSIVE Padded(_, _)
Padded(n, w) ==
    IF w <= 1 THEN Digits(n)
    ELSE IF Len(Digits(n)) >= w THEN Digits(n)
    ELSE <<"0">> \o Padded(n, w - 1)

RECURSIVE TenTo(_)
TenTo(k) == IF k = 0 THEN 1 ELSE 10 * TenTo(k - 1)

\* The days from 1970-01-01 to a date of the proleptic Gregorian calendar.
DaysFromCivil(y, m, d) ==
    LET yy == IF m <= 2 THEN y - 1 ELSE y
        era == yy \div 400
        yoe == yy - era * 400
        mp == IF m > 2 THEN m - 3 ELSE m + 9
        doy == (153 * mp + 2) \div 5 + d - 1
        doe == yoe * 365 + yoe \div 4 - yoe \div 100 + doy
    IN era * 146097 + doe - 719468

\* datetime.strptime(tstamp, '%Y-%m-%dT%H:%M:%S.%fZ'): the fields of the
\* naive datetime; %f reads one to six digits as a fraction of a second.
ParseStamp(tstamp) ==
    LET frac == SubSeq(tstamp, 21, Len(tstamp) - 1)
    IN [year |-> NumOf(SubSeq(tstamp, 1, 4)), month |-> NumOf(SubSeq(tstamp, 6, 7)),
        day |-> NumOf(SubSeq(tstamp, 9, 10)), hour |-> NumOf(SubSeq(tstamp, 12, 13)),
        minute |-> NumOf(SubSeq(tstamp, 15, 16)), second |-> NumOf(SubSeq(tstamp, 18, 19)),
        microsecond |-> NumOf(frac) * TenTo(6 - Len(frac))]

\* datetime.strptime(tstamp[:10], '%Y-%m-%d')
ParseDate(tstamp) ==
    LET head == SubSeq(tstamp, 1, 10)
    IN [year |-> NumOf(SubSeq(head, 1, 4)), month |-> NumOf(SubSeq(head, 6, 7)),
        day |-> NumOf(SubSeq(head, 9, 10)), hour |-> 0, minute |-> 0, second |-> 0,
        microsecond |-> 0]

\* The seconds from 1970-01-01T00:00:00 to a wall-clock time, both read in
\* the same zone.
WallSeconds(dt) ==
    DaysFromCivil(dt.year, dt.month, dt.day) * 86400
        + dt.hour * 3600 + dt.minute * 60 + dt.second

\* tstamp.strftime('%s') of a naive datetime: the C library reads the fields
\* as local time (mktime), whatever zone the text named.
StrfSeconds(dt, zone) == IntStr(WallSeconds(dt) - zone)

\* a_to_yt_time(tstamp), on a machine whose local time is UTC + zone seconds
a_to_yt_time(tstamp, zone) ==
    LET dt == ParseStamp(tstamp)
        both == StrfSeconds(dt, zone) \o Padded(dt.microsecond, 6)
    IN SubSeq(both, 1, Len(both) - 3)

\* a_to_yt_date(tstamp), on a machine whose local time is UTC + zone seconds
a_to_yt_date(tstamp, zone) ==
    LET dt == ParseDate(tstamp)
    IN IntStr((WallSeconds(dt) - zone) * 1000)

\* The timestamps the source may send.  They lie within three weeks of
\* 1970-01-01 so that the milliseconds fit the model checker's integers;
\* the script's own integers are unbounded.
StampDates == { <<1969, 12, 31>>, <<1970, 1, 1>>, <<1970, 1, 2>>, <<1970, 1, 20>> }
StampTimes == { <<0, 0, 0>>, <<12, 30, 15>>, <<23, 59, 59>> }
StampFractions == { <<"0", "0", "0">>, <<"1", "4", "7">>, <<"5">>,
                    <<"1", "4", "7", "9">>, <<"9", "9", "9", "9", "9", "9">> }
Zones == {0 - 18000, 0, 3600}

StampText(date, time, frac) ==
    Padded(date[1], 4) \o <<"-">> \o Padded(date[2], 2) \o <<"-">> \o Padded(date[3], 2)
        \o <<"T">> \o Padded(time[1], 2) \o <<":">> \o Padded(time[2], 2) \o <<":">>
        \o Padded(time[3], 2) \o <<".">> \o frac \o <<"Z">>

InitTime ==
    /\ MainParked
    /\ MergeIdle
    /\ CacheIdle
    /\ \E date \in StampDates : \E time \in StampTimes : \E frac \in StampFractions :
         t_stamp = StampText(date, time, frac)
    /\ t_zone \in Zones
    /\ t_time = << >>
    /\ t_date = << >>

\* new_issue.created = a_to_yt_time(a['created_at'])
CallTime ==
    /\ t_time = << >>
    /\ t_time' = a_to_yt_time(t_stamp, t_zone)
    /\ UNCHANGED <<mainVars, mergeVars, cacheVars, t_stamp, t_zone, t_date>>

\* new_issue['Due Date'] = a_to_yt_date(a['due_on']), for a due_on that
\* holds the date alone or a date and a time
CallDate ==
    /\ t_date = << >>
    /\ \E whole \in BOOLEAN :
         t_date' = a_to_yt_date(IF whole THEN t_stamp ELSE SubSeq(t_stamp, 1, 10), t_zone)
    /\ UNCHANGED <<mainVars, mergeVars, cacheVars, t_stamp, t_zone, t_time>>

NextTime == CallTime \/ CallDate

SpecTime == InitTime /\ [][NextTime]_vars

\* The epoch second of a timestamp: its text ends in Z, so its fields are UTC.
EpochOf(tstamp) ==
    LET f(a, b) == NumOf(SubSeq(tstamp, a, b))
    IN DaysFromCivil(f(1, 4), f(6, 7), f(9, 10)) * 86400 + f(12, 13) * 3600
          + f(15, 16) * 60 + f(18, 19)

\* The first three digits of the six-digit microsecond fraction of a timestamp.
MillisOf(tstamp) ==
    LET frac == SubSeq(tstamp, 21, Len(tstamp) - 1)
        six == frac \o [n \in 1..(6 - Len(frac)) |-> "0"]
    IN SubSeq(six, 1, 3)

\* C11: a_to_yt_time returns the decimal string of the timestamp's epoch
\* second followed by the first three digits of its microsecond fraction,
\* and a_to_yt_date the decimal string of 1000 times the epoch second of
\* midnight of the timestamp's date.
C11_EpochMilliseconds ==
    /\ t_time # << >> => t_time = IntStr(EpochOf(t_stamp)) \o MillisOf(t_stamp)
    /\ t_date # << >> =>
          t_date = IntStr(DaysFromCivil(NumOf(SubSeq(t_stamp, 1, 4)), NumOf(SubSeq(t_stamp, 6, 7)),
                                        NumOf(SubSeq(t_stamp, 9, 10))) * 86400 * 1000)

\* The same on a machine whose local time is UTC.
SameWhenLocalTimeIsUTC == t_zone = 0 => C11_EpochMilliseconds


\* ---------------------------------------------------------------------------
\* The order of main's steps
\* ---------------------------------------------------------------------------

\* The steps that may follow a step in the record of a run.
StepsAfter(step) ==
    CASE step = "login" -> {"project"}
      [] step = "project" -> {"fields"}
      [] step = "fields" -> {"users"}
      [] step = "users" -> {"subs"}
      [] step = "subs" -> {"tasks"}
      [] step = "tasks" -> {"issues", "tasks_done"}
      [] step = "issues" -> {"issues", "tasks_done"}
      [] step = "tasks_done" -> {"project"}
      [] OTHER -> {}

\* The last step the run completed, "none" before the first run.
LastStep == IF trail = << >> THEN "none" ELSE trail[Len(trail)]

TrailInOrder ==
    /\ trail # << >> => trail[1] = "login"
    /\ \A n \in 1..(Len(trail) - 1) : trail[n + 1] \in StepsAfter(trail[n])

\* What a step may change in the destination, given the last completed step.
WritesInOrder ==
    /\ d_projects' # d_projects => LastStep \in {"login", "tasks_done"}
    /\ (d_fields' # d_fields \/ d_pfields' # d_pfields) => LastStep = "project"
    /\ d_users' # d_users => LastStep = "fields"
    /\ d_subs' # d_subs => LastStep = "users"
    /\ d_issues' # d_issues => LastStep \in {"tasks", "issues"}

\* C12: in every run of main the steps come in the order login, then per
\* workspace: project resolved or created, custom fields ensured, User
\* Migrator, Project-to-Subsystem Migrator, Task-to-Issue Migrator, each
\* completed before the next one starts; the destination is written to only
\* by the step whose turn it is, so no issue is imported for a workspace
\* before its user and subsystem migration have returned, and nothing is
\* written before the login.
C12_StepsInOrder == [](TrailInOrder) /\ [][WritesInOrder]_vars

\* A run that went through both workspaces and imported issues.
C12_Witness ==
    /\ pc = "done"
    /\ LastStep = "tasks_done"
    /\ Len(SelectSeq(trail, LAMBDA x : x = "project")) = 2
    /\ \E n \in DOMAIN trail : trail[n] = "issues"
    /\ created.issues > 0

\* ---------------------------------------------------------------------------
\* The custom-field checks
\* ---------------------------------------------------------------------------

\* The step just taken is main's pass over the three custom-field checks.
FieldsStep == last.op = "fields"

\* C13: in each of the three custom-field checks a lookup that raises, be it
\* the destination's "not found" or any other error, is followed by the
\* create call of that check, and no error of a lookup ends the run; a lookup
\* that returns the field is followed by no create call.
C13_LookupErrorMeansCreate ==
    FieldsStep =>
        /\ ~last.by_lookup
        /\ \A k \in 1..3 :
              /\ last.lookups[k] \in {"not_found", "error"} => last.creates[k]
              /\ last.lookups[k] = "found" => ~last.creates[k]

\* A pass in which the lookup of a field that exists failed and was followed
\* by the create call, and the lookup of another field returned it.
C13_Witness ==
    /\ FieldsStep
    /\ \E k \in 1..3 : last.present[k] /\ last.lookups[k] = "error" /\ last.creates[k]
    /\ \E k \in 1..3 : last.lookups[k] = "found" /\ ~last.creates[k]

\* The pass of a later run over a workspace whose three fields a previous
\* run has created.
RerunFieldsStep ==
    /\ FieldsStep
    /\ runs >= 2
    /\ \A k \in 1..3 : last.present[k]

\* C14 as stated: a later run over a destination that has the custom fields
\* makes custom-field creation calls again.
C14_RerunRepeatsCreation ==
    RerunFieldsStep => \E k \in 1..3 : last.creates[k]

\* C14, amended: a later run over a destination that has the custom fields
\* repeats the lookups, one after the other until a create call raises, and
\* makes the create call of a check exactly when its lookup raised; the
\* fields stay in place.
C14_RerunCreatesOnlyAfterFailedLookup ==
    RerunFieldsStep =>
        /\ last.lookups[1] \in {"found", "error"}
        /\ last.raised = "none" => \A k \in 1..3 : last.lookups[k] \in {"found", "error"}
        /\ \A k \in 1..3 : last.creates[k] <=> last.lookups[k] = "error"
        /\ "AsanaID" \in d_fields
        /\ {<<last.proj.id, "Due Date">>, <<last.proj.id, "AsanaID">>} \subseteq d_pfields

\* A later run whose three lookups returned the fields and which made no
\* create call.
C14_Witness ==
    /\ RerunFieldsStep
    /\ \A k \in 1..3 : last.lookups[k] = "found" /\ ~last.creates[k]

\* ---------------------------------------------------------------------------
\* The users the migrators resolve
\* ---------------------------------------------------------------------------

\* The Project-to-Subsystem Migrator or the Task-to-Issue Migrator is at work.
MigratorsAtWork == pc \in {"subs", "tasks", "tasks_loop"}

NoUserIsCreated == created.users = 0 /\ (last.op = "users" => last.submitted = << >>)

====
